---- MODULE Spec2Model ----
(***************************************************************************)
(* State-machine model of the local development shim of the Lean CLI:      *)
(*   - DataDownloader      (lean/components/cloud/data_downloader.py)      *)
(*   - ProjectServer       (lean/components/api/server/project_server.py)  *)
(*   - APIServer           (lean/components/api/server/api_server.py)      *)
(*   - AccountServer       (lean/components/api/server/account_server.py)  *)
(***************************************************************************)
EXTENDS Integers, Sequences, FiniteSets, TLC

VARIABLES
    \* ---- DataDownloader ----
    force_overwrite,   \* self._force_overwrite: "None" | "True" | "False"
    local,             \* the data directory: file -> content, Absent when no local copy
    dl_pc,             \* "idle" | "loop" | "returned" | "raised"
    files,             \* download_files: the list being walked
    index,             \* download_files: number of files of the list already handled
    overwrite_flag,    \* download_files: the overwrite_flag argument
    events,            \* what this call did, one record per handled file
                       \* (the prompts on the console, the requests to the API, the writes)
    calls,             \* number of download_files calls made on this DataDownloader
    \* ---- local API server ----
    dirs,              \* the CLI root directory: path -> directory (sidecar config, files)
    srv_pc,            \* "idle" | "handled"
    g_input,           \* g.input / request.json of the request being served
    before,            \* dirs when the view function of that request was entered
    result,            \* what the view function did: its return value or its exception
    response           \* the response that leaves the Flask app for that request

dl_vars == <<force_overwrite, local, dl_pc, files, index, overwrite_flag, events, calls>>

srv_vars == <<dirs, srv_pc, g_input, before, result, response>>

vars == <<force_overwrite, local, dl_pc, files, index, overwrite_flag, events, calls,
          dirs, srv_pc, g_input, before, result, response>>

(***************************************************************************)
(* Bounds                                                                  *)
(***************************************************************************)
MaxFiles == 3        \* longest file list handed to download_files
MaxCalls == 2        \* download_files calls on one DataDownloader

Files == {"a.zip", "b.zip"}
Bytes == {0, 1}      \* file contents
Absent == -1         \* local_path.exists() is False

RECURSIVE SeqsUpTo(_, _)
SeqsUpTo(S, n) ==
    IF n = 0 THEN {<<>>}
    ELSE LET shorter == SeqsUpTo(S, n - 1)
         IN shorter \cup {Append(s, x) : s \in {t \in shorter : Len(t) = n - 1}, x \in S}

FileLists == SeqsUpTo(Files, MaxFiles)

(***************************************************************************)
(* The remote client: api_client.data.download_file returns bytes or       *)
(* raises.  An error is its class and its message, a sequence of words.    *)
(***************************************************************************)
FileNotFoundText == <<"File", "not", "found">>

\* Python's `needle in hay` on strings, on words
Contains(needle, hay) ==
    \E i \in 1..(Len(hay) - Len(needle) + 1) :
        SubSeq(hay, i, i + Len(needle) - 1) = needle

Errors ==
    { [class |-> "RequestFailedError", msg |-> <<"File", "not", "found">>],
      [class |-> "RequestFailedError", msg |-> <<"GET", "failed", "File", "not", "found", "404">>],
      [class |-> "RequestFailedError", msg |-> <<"not", "found", "File">>],
      [class |-> "ConnectionError",    msg |-> <<"File", "not", "found">>] }

NoError == [class |-> "none", msg |-> <<>>]

\* what one call of api_client.data.download_file can do
Outcomes ==
    {[ok |-> TRUE, content |-> b, error |-> NoError] : b \in Bytes}
    \cup {[ok |-> FALSE, content |-> Absent, error |-> e] : e \in Errors}

\* a variant that swallows every RequestFailedError, whatever its message
IsFileNotFound_any_request_failed(error) ==
    error.class = "RequestFailedError"

\* the except clause of _download_file: caught and swallowed
IsFileNotFound(error) ==
    error.class = "RequestFailedError" /\ Contains(FileNotFoundText, error.msg)

(***************************************************************************)
(* DataDownloader._should_overwrite                                        *)
(*   answer is what click.confirm returns if it is called                  *)
(***************************************************************************)
\* a variant without the `is None` test: the answer is not cached
_should_overwrite_not_cached(flag, force, answer) ==
    IF flag \/ force = "True"
    THEN [ret |-> TRUE, force |-> force, prompted |-> FALSE]
    ELSE LET force2 == IF answer THEN "True" ELSE "False"
         IN [ret |-> (force2 = "True"), force |-> force2, prompted |-> TRUE]

\* a variant that tests `is not None` where the code tests truthiness
_should_overwrite_any_answer_allows(flag, force, answer) ==
    IF flag \/ force # "None"
    THEN [ret |-> TRUE, force |-> force, prompted |-> FALSE]
    ELSE LET force2 == IF answer THEN "True" ELSE "False"
         IN [ret |-> (force2 = "True"), force |-> force2, prompted |-> TRUE]

_should_overwrite(flag, force, answer) ==
    IF flag \/ force = "True"
    THEN [ret |-> TRUE, force |-> force, prompted |-> FALSE]
    ELSE LET asked == (force = "None")
             force2 == IF asked THEN (IF answer THEN "True" ELSE "False") ELSE force
         IN [ret |-> (force2 = "True"), force |-> force2, prompted |-> asked]

(***************************************************************************)
(* DataDownloader._download_file on one file: the new decision, the new    *)
(* local content of the file, whether the error propagates, and the record *)
(* of what happened.                                                       *)
(***************************************************************************)
\* a variant that consults _should_overwrite without testing local_path.exists()
_download_file_no_exists_test(relative_file, flag, force, content, answer, outcome) ==
    LET exists == (content # Absent)
        so == _should_overwrite(flag, force, answer)
        skip == ~so.ret
        swallowed == ~skip /\ ~outcome.ok /\ IsFileNotFound(outcome.error)
        raised == ~skip /\ ~outcome.ok /\ ~IsFileNotFound(outcome.error)
        written == ~skip /\ outcome.ok
    IN [force |-> so.force,
        content |-> IF written THEN outcome.content ELSE content,
        raised |-> raised,
        event |-> [file |-> relative_file,
                   existed |-> exists,
                   flag |-> flag,
                   before |-> force,
                   after |-> so.force,
                   prompted |-> so.prompted,
                   fetched |-> ~skip,
                   outcome |-> IF skip THEN [ok |-> FALSE, content |-> Absent, error |-> NoError]
                               ELSE outcome,
                   written |-> written,
                   old |-> content,
                   new |-> IF written THEN outcome.content ELSE content]]

_download_file(relative_file, flag, force, content, answer, outcome) ==
    LET exists == (content # Absent)
        so == IF exists THEN _should_overwrite(flag, force, answer)
              ELSE [ret |-> TRUE, force |-> force, prompted |-> FALSE]
        skip == exists /\ ~so.ret
        swallowed == ~skip /\ ~outcome.ok /\ IsFileNotFound(outcome.error)
        raised == ~skip /\ ~outcome.ok /\ ~IsFileNotFound(outcome.error)
        written == ~skip /\ outcome.ok
    IN [force |-> so.force,
        content |-> IF written THEN outcome.content ELSE content,
        raised |-> raised,
        event |-> [file |-> relative_file,
                   existed |-> exists,
                   flag |-> flag,
                   before |-> force,
                   after |-> so.force,
                   prompted |-> so.prompted,
                   fetched |-> ~skip,
                   outcome |-> IF skip THEN [ok |-> FALSE, content |-> Absent, error |-> NoError]
                               ELSE outcome,
                   written |-> written,
                   old |-> content,
                   new |-> IF written THEN outcome.content ELSE content]]

(***************************************************************************)
(* The local API server: data                                              *)
(***************************************************************************)
MaxIndex == 3        \* a request carries parameters[0..MaxIndex-1][key|value]

Missing == "<missing>"          \* a key that a dict or a config does not hold
Root == <<>>                    \* get_cli_root_directory()
Names == {<<"p">>, <<"q">>}     \* the paths under the root, as characters
NameInputs == {<<"p">>, <<"/", "q">>, <<"/">>}     \* g.input["name"]
Descriptions == {"d"}
Keys == {"a", "b"}
Vals == {"1", "2"}
Ids == 1..Cardinality(Names)    \* local ids
NoId == 0                       \* the sidecar config holds no local id
Stored == {"python"}            \* a language string written by hand into a sidecar config

\* QCLanguage.__members__: member name -> value
Members == [Python |-> "Py", CSharp |-> "C#"]

NoParameters == [k \in Keys |-> Missing]

NoDir ==
    [kind |-> "none", description |-> Missing, parameters |-> NoParameters,
     language |-> Missing, id |-> NoId, files |-> "none"]

\* a directory without a sidecar config
PlainDir(token) == [NoDir EXCEPT !.kind = "plain", !.files = token]

\* a directory with a sidecar config that holds the language key or not
ProjectDir(language, token) ==
    [NoDir EXCEPT !.kind = "project", !.language = language, !.files = token]

\* Path.is_dir()
is_dir(fs, path) == path = Root \/ (path \in Names /\ fs[path].kind # "none")

ProjectNames(fs) == {n \in Names : fs[n].kind = "project"}

\* str.lstrip(ch)
RECURSIVE lstrip(_, _)
lstrip(s, ch) == IF Len(s) > 0 /\ Head(s) = ch THEN lstrip(Tail(s), ch) ELSE s

(***************************************************************************)
(* Requests: the fields of g.input (projects) or request.json (account)    *)
(***************************************************************************)
NoPair == [hasKey |-> FALSE, key |-> Missing, hasValue |-> FALSE, value |-> Missing]

Pair(k, v) == [hasKey |-> TRUE, key |-> k, hasValue |-> TRUE, value |-> v]
KeyOnly(k) == [hasKey |-> TRUE, key |-> k, hasValue |-> FALSE, value |-> Missing]

NoPairs == [i \in 1..MaxIndex |-> NoPair]

\* pairs[i + 1] holds parameters[i][key] and parameters[i][value]: every list of
\* complete pairs and gaps, a repeated key, and a key without its value
PairLists ==
    [1..MaxIndex -> {NoPair, Pair("a", "1"), Pair("b", "2")}]
    \cup {[NoPairs EXCEPT ![1] = Pair("a", "1"), ![2] = Pair("a", "2")],
          [NoPairs EXCEPT ![1] = KeyOnly("a")],
          [NoPairs EXCEPT ![1] = Pair("b", "2"), ![2] = KeyOnly("a")]}

NoInput ==
    [route |-> "none", projectId |-> NoId, description |-> Missing, parameters |-> FALSE,
     pairs |-> NoPairs, hasName |-> FALSE, name |-> <<>>, language |-> Missing,
     json |-> FALSE, organizationId |-> Missing]

AccountInputs ==
    {[NoInput EXCEPT !.route = "account/read", !.json = TRUE, !.organizationId = o] :
        o \in {Missing, "org"}}
    \cup {[NoInput EXCEPT !.route = "account/read"]}

ReadInputs ==
    {[NoInput EXCEPT !.route = "projects/read", !.projectId = i] : i \in Ids \cup {NoId}}

\* updates of the parameters alone, with every pair list
ParameterUpdates ==
    {[NoInput EXCEPT !.route = "projects/update", !.projectId = i, !.pairs = ps] :
        i \in Ids \cup {NoId}, ps \in PairLists}

\* updates that combine a description, parameters and a name
CombinedUpdates ==
    UNION {
        {[NoInput EXCEPT !.route = "projects/update", !.projectId = i, !.description = d,
                         !.parameters = f, !.pairs = ps, !.hasName = TRUE, !.name = n]
            : n \in NameInputs}
        \cup
        {[NoInput EXCEPT !.route = "projects/update", !.projectId = i, !.description = d,
                         !.parameters = f, !.pairs = ps]}
        : i \in Ids \cup {NoId}, d \in Descriptions \cup {Missing}, f \in BOOLEAN,
          ps \in {NoPairs, [NoPairs EXCEPT ![1] = Pair("b", "2")]} }

UpdateInputs == ParameterUpdates \cup CombinedUpdates

CreateInputs ==
    {[NoInput EXCEPT !.route = "projects/create", !.hasName = TRUE, !.name = n, !.language = l] :
        n \in NameInputs, l \in {"Py", "C#"}}
    \cup {[NoInput EXCEPT !.route = "projects/create", !.language = "Py"],
          [NoInput EXCEPT !.route = "projects/create", !.hasName = TRUE, !.name = <<"p">>]}

DeleteInputs ==
    {[NoInput EXCEPT !.route = "projects/delete", !.projectId = i] : i \in Ids \cup {NoId}}

(***************************************************************************)
(* Responses and exceptions                                                *)
(***************************************************************************)
NoException == [class |-> "none", msg |-> ""]
KeyError(field) == [class |-> "KeyError", msg |-> field]
NotFound == [class |-> "RuntimeError", msg |-> "Project with that local id does not exist"]
Conflict == [class |-> "RuntimeError", msg |-> "There already exists a project named 'name'"]
StopIteration == [class |-> "StopIteration", msg |-> ""]
AttributeError == [class |-> "AttributeError", msg |-> "NoneType object has no attribute get"]

NoAccount == [organizationId |-> Missing, creditBalance |-> 0]

\* a JSON body: the keys it holds and their values
EmptyBody ==
    [has |-> {}, success |-> FALSE, errors |-> <<>>, projects |-> {}, account |-> NoAccount]

NoResponse == [headers |-> {}, body |-> EmptyBody]

\* what a view function did: the directories it left, and its return value or
\* the exception it raised
Returned(fs, body) == [dirs |-> fs, raised |-> FALSE, exc |-> NoException, body |-> body]
Raised(fs, exc) == [dirs |-> fs, raised |-> TRUE, exc |-> exc, body |-> EmptyBody]

(***************************************************************************)
(* APIServer                                                               *)
(***************************************************************************)
\* a variant that sets the success field whatever the body holds
_after_request_always_sets(resp) ==
    [headers |-> resp.headers \cup {"Access-Control-Allow-Origin",
                                    "Access-Control-Allow-Headers",
                                    "Access-Control-Allow-Methods"},
     body |-> [resp.body EXCEPT !.has = @ \cup {"success"}, !.success = TRUE]]

_after_request(resp) ==
    [headers |-> resp.headers \cup {"Access-Control-Allow-Origin",
                                    "Access-Control-Allow-Headers",
                                    "Access-Control-Allow-Methods"},
     body |-> IF "success" \notin resp.body.has
              THEN [resp.body EXCEPT !.has = @ \cup {"success"}, !.success = TRUE]
              ELSE resp.body]

_error_handler(exception) ==
    [EmptyBody EXCEPT !.has = {"errors", "success"},
                      !.errors = <<exception.msg>>,
                      !.success = FALSE]

\* Flask's handling of one request with the hooks __init__ registers: the view
\* function's return value, or the error handler's for what it raised, becomes
\* the response that after_request sees
full_dispatch_request(outcome) ==
    _after_request([headers |-> {},
                    body |-> IF outcome.raised THEN _error_handler(outcome.exc)
                             ELSE outcome.body])

(***************************************************************************)
(* AccountServer                                                           *)
(***************************************************************************)
creditBalance == 1000

_read(fs, input) ==
    IF ~input.json THEN Raised(fs, AttributeError)
    ELSE LET organization_id == IF input.organizationId = Missing
                                THEN "fake-organization-id" ELSE input.organizationId
         IN Returned(fs, [EmptyBody EXCEPT
                !.has = {"organizationId", "creditBalance"},
                !.account = [organizationId |-> organization_id,
                             creditBalance |-> creditBalance]])

(***************************************************************************)
(* The collaborators of ProjectServer                                      *)
(***************************************************************************)
UsedIds(fs) == {fs[n].id : n \in ProjectNames(fs)} \ {NoId}

\* ProjectConfigManager.get_local_id: the id the sidecar config holds, or a new
\* one, unique under the root, that it stores there
get_local_id(fs, project_dir) ==
    IF fs[project_dir].id # NoId
    THEN {[dirs |-> fs, id |-> fs[project_dir].id]}
    ELSE {[dirs |-> [fs EXCEPT ![project_dir].id = i], id |-> i] : i \in Ids \ UsedIds(fs)}

\* ProjectManager.find_project_by_id: the directories holding that id
find_project_by_id(fs, local_id) ==
    {n \in ProjectNames(fs) : fs[n].id = local_id}

\* the create-project command: scaffolds a new project directory
create_project(fs, name, language) ==
    IF is_dir(fs, name) THEN Raised(fs, Conflict)
    ELSE Returned([fs EXCEPT ![name] =
                      ProjectDir(IF language = "python" THEN "Python" ELSE "CSharp", "files")],
                  EmptyBody)

(***************************************************************************)
(* ProjectServer                                                           *)
(***************************************************************************)
\* the list of QCParameter built from the parameters of the sidecar config
QCParameters(parameters) ==
    {[key |-> k, value |-> parameters[k]] : k \in {x \in Keys : parameters[x] # Missing}}

NoProject ==
    [projectId |-> NoId, name |-> <<>>, description |-> "", language |-> Missing,
     parameters |-> {}]

\* a variant that copies the directory to its new path and leaves the old one
move_copies(fs, src, dst) == [fs EXCEPT ![dst] = fs[src]]

\* shutil.move(src, dst) to a path that does not exist
move(fs, src, dst) == [fs EXCEPT ![dst] = fs[src], ![src] = NoDir]

\* ProjectServer._create_project: the QCProject of a directory, or the
\* exception of the lookup of its language
_create_project(fs, project_dir) ==
    { LET config == g.dirs[project_dir]
          project_language == IF config.language = Missing THEN "Python" ELSE config.language
      IN IF project_language \in DOMAIN Members
         THEN [dirs |-> g.dirs, raised |-> FALSE, exc |-> NoException,
               project |-> [projectId |-> g.id,
                            name |-> project_dir,
                            description |-> IF config.description = Missing THEN ""
                                            ELSE config.description,
                            language |-> Members[project_language],
                            parameters |-> QCParameters(config.parameters)]]
         ELSE [dirs |-> g.dirs, raised |-> TRUE, exc |-> StopIteration, project |-> NoProject]
      : g \in get_local_id(fs, project_dir) }

\* the orders in which rglob can yield the directories S
Orders(S) ==
    {o \in [1..Cardinality(S) -> S] : \A i, j \in 1..Cardinality(S) : i # j => o[i] # o[j]}

\* [self._create_project(p) for p in order]
RECURSIVE create_projects(_, _, _)
create_projects(fs, order, projects) ==
    IF Len(order) = 0
    THEN {Returned(fs, [EmptyBody EXCEPT !.has = {"projects"}, !.projects = projects])}
    ELSE UNION { IF c.raised THEN {Raised(c.dirs, c.exc)}
                 ELSE create_projects(c.dirs, Tail(order), projects \cup {c.project})
                 : c \in _create_project(fs, Head(order)) }

_projects_read(fs, input) ==
    IF input.projectId # NoId
    THEN LET found == find_project_by_id(fs, input.projectId)
         IN IF found = {} THEN {Raised(fs, NotFound)}
            ELSE UNION {create_projects(fs, <<d>>, {}) : d \in found}
    ELSE UNION {create_projects(fs, o, {}) : o \in Orders(ProjectNames(fs))}

\* the while loop of _projects_update over parameters[index][key]
RECURSIVE parse_parameters(_, _, _)
parse_parameters(pairs, i, parameters) ==
    IF i < Len(pairs) /\ pairs[i + 1].hasKey
    THEN IF pairs[i + 1].hasValue
         THEN parse_parameters(pairs, i + 1,
                               [parameters EXCEPT ![pairs[i + 1].key] = pairs[i + 1].value])
         ELSE [raised |-> TRUE, parameters |-> parameters]
    ELSE [raised |-> FALSE, parameters |-> parameters]

\* a variant whose loop merges the pairs into the parameters already stored
set_parameters_merges(fs, project_dir, input) ==
    IF input.parameters
    THEN Returned([fs EXCEPT ![project_dir].parameters = NoParameters], EmptyBody)
    ELSE IF input.pairs[1].hasKey
    THEN LET parsed == parse_parameters(input.pairs, 0, fs[project_dir].parameters)
         IN IF parsed.raised THEN Raised(fs, KeyError("parameters[index][value]"))
            ELSE Returned([fs EXCEPT ![project_dir].parameters = parsed.parameters], EmptyBody)
    ELSE Returned(fs, EmptyBody)

\* lines 74-84 of _projects_update
set_parameters(fs, project_dir, input) ==
    IF input.parameters
    THEN Returned([fs EXCEPT ![project_dir].parameters = NoParameters], EmptyBody)
    ELSE IF input.pairs[1].hasKey
    THEN LET parsed == parse_parameters(input.pairs, 0, NoParameters)
         IN IF parsed.raised THEN Raised(fs, KeyError("parameters[index][value]"))
            ELSE Returned([fs EXCEPT ![project_dir].parameters = parsed.parameters], EmptyBody)
    ELSE Returned(fs, EmptyBody)

\* lines 86-90 of _projects_update
rename(fs, project_dir, input) ==
    IF ~input.hasName THEN Returned(fs, EmptyBody)
    ELSE LET new_dir == lstrip(input.name, "/")
         IN IF is_dir(fs, new_dir) THEN Raised(fs, Conflict)
            ELSE Returned(move(fs, project_dir, new_dir), EmptyBody)

_projects_update(fs, input) ==
    IF input.projectId = NoId THEN Raised(fs, KeyError("projectId"))
    ELSE LET found == find_project_by_id(fs, input.projectId)
         IN IF found = {} THEN Raised(fs, NotFound)
            ELSE LET project_dir == CHOOSE d \in found : TRUE
                     described == IF input.description # Missing
                                  THEN [fs EXCEPT ![project_dir].description = input.description]
                                  ELSE fs
                     set == set_parameters(described, project_dir, input)
                 IN IF set.raised THEN set
                    ELSE rename(set.dirs, project_dir, input)

_projects_create(fs, input) ==
    IF ~input.hasName THEN {Raised(fs, KeyError("name"))}
    ELSE IF input.language = Missing THEN {Raised(fs, KeyError("language"))}
    ELSE LET name == lstrip(input.name, "/")
             language == IF input.language = "Py" THEN "python" ELSE "csharp"
             created == create_project(fs, name, language)
         IN IF created.raised THEN {created}
            ELSE {Returned(g.dirs, [EmptyBody EXCEPT
                        !.has = {"projects"},
                        !.projects = {[projectId |-> g.id, name |-> name]}])
                  : g \in get_local_id(created.dirs, name)}

_projects_delete(fs, input) ==
    IF input.projectId = NoId THEN Raised(fs, KeyError("projectId"))
    ELSE LET found == find_project_by_id(fs, input.projectId)
         IN IF found = {} THEN Raised(fs, NotFound)
            ELSE LET project_dir == CHOOSE d \in found : TRUE
                 IN Returned([fs EXCEPT ![project_dir] = NoDir], EmptyBody)

(***************************************************************************)
(* Actions of the DataDownloader                                           *)
(***************************************************************************)
\* a caller enters download_files(files, overwrite_flag, organization_id)
download_files ==
    /\ dl_pc = "idle"
    /\ calls < MaxCalls
    /\ \E fs \in FileLists, flag \in BOOLEAN :
        /\ files' = fs
        /\ overwrite_flag' = flag
    /\ index' = 0
    /\ events' = <<>>
    /\ calls' = calls + 1
    /\ dl_pc' = "loop"
    /\ UNCHANGED <<force_overwrite, local>>
    /\ UNCHANGED srv_vars

\* one iteration of the for loop: self._download_file(file, ...)
download_files_iteration ==
    /\ dl_pc = "loop"
    /\ index < Len(files)
    /\ \E answer \in BOOLEAN, outcome \in Outcomes :
        LET file == files[index + 1]
            \* click.confirm and the remote client answer only when they are called
            r == _download_file(file, overwrite_flag, force_overwrite, local[file], answer, outcome)
        IN /\ force_overwrite' = r.force
           /\ local' = [local EXCEPT ![file] = r.content]
           /\ events' = Append(events, r.event)
           /\ index' = index + 1
           /\ dl_pc' = IF r.raised THEN "raised" ELSE "loop"
    /\ UNCHANGED <<files, overwrite_flag, calls>>
    /\ UNCHANGED srv_vars

\* the for loop is exhausted: download_files returns
download_files_return ==
    /\ dl_pc = "loop"
    /\ index = Len(files)
    /\ dl_pc' = "returned"
    /\ UNCHANGED <<force_overwrite, local, files, index, overwrite_flag, events, calls>>
    /\ UNCHANGED srv_vars

\* control is back in the caller, by the return or by the exception: the
\* arguments and locals of the call are gone, the DataDownloader stays
back_in_caller ==
    /\ dl_pc \in {"returned", "raised"}
    /\ dl_pc' = "idle"
    /\ files' = <<>>
    /\ index' = 0
    /\ overwrite_flag' = FALSE
    /\ events' = <<>>
    /\ UNCHANGED <<force_overwrite, local, calls>>
    /\ UNCHANGED srv_vars

DlNext ==
    \/ download_files
    \/ download_files_iteration
    \/ download_files_return
    \/ back_in_caller


(***************************************************************************)
(* Actions of the local API server                                         *)
(***************************************************************************)
\* a directory of the root before the first request: absent, without a sidecar
\* config, or a project whose config holds a language or none
InitDirs ==
    {NoDir, PlainDir("files")} \cup {ProjectDir(l, "files") : l \in Stored \cup {Missing}}

\* the view function ran on `input` with outcome `result`; Flask built the response
served(input, outcome) ==
    /\ g_input' = input
    /\ before' = dirs
    /\ dirs' = outcome.dirs
    /\ result' = outcome
    /\ response' = full_dispatch_request(outcome)
    /\ srv_pc' = "handled"
    /\ UNCHANGED dl_vars

account_read ==
    /\ srv_pc = "idle"
    /\ \E input \in AccountInputs : served(input, _read(dirs, input))

projects_read ==
    /\ srv_pc = "idle"
    /\ \E input \in ReadInputs : \E outcome \in _projects_read(dirs, input) :
          served(input, outcome)

projects_update ==
    /\ srv_pc = "idle"
    /\ \E input \in UpdateInputs : served(input, _projects_update(dirs, input))

projects_create ==
    /\ srv_pc = "idle"
    /\ \E input \in CreateInputs : \E outcome \in _projects_create(dirs, input) :
          served(input, outcome)

projects_delete ==
    /\ srv_pc = "idle"
    /\ \E input \in DeleteInputs : served(input, _projects_delete(dirs, input))

\* the response has left; the request context is torn down
request_done ==
    /\ srv_pc = "handled"
    /\ srv_pc' = "idle"
    /\ g_input' = NoInput
    /\ before' = dirs
    /\ result' = Returned(dirs, EmptyBody)
    /\ response' = NoResponse
    /\ UNCHANGED dirs
    /\ UNCHANGED dl_vars

SrvNext ==
    \/ account_read
    \/ projects_read
    \/ projects_update
    \/ projects_create
    \/ projects_delete
    \/ request_done

\* a DataDownloader in use, no server running
DownloaderInit ==
    /\ force_overwrite = "None"
    /\ local \in [Files -> {Absent} \cup Bytes]
    /\ dl_pc = "idle"
    /\ files = <<>>
    /\ index = 0
    /\ overwrite_flag = FALSE
    /\ events = <<>>
    /\ calls = 0
    /\ dirs = [n \in Names |-> NoDir]
    /\ srv_pc = "idle"
    /\ g_input = NoInput
    /\ before = dirs
    /\ result = Returned(dirs, EmptyBody)
    /\ response = NoResponse

\* a server over any pattern of directories, no download running
ServerInit ==
    /\ dirs \in [Names -> InitDirs]
    /\ srv_pc = "idle"
    /\ g_input = NoInput
    /\ before = dirs
    /\ result = Returned(dirs, EmptyBody)
    /\ response = NoResponse
    /\ force_overwrite = "None"
    /\ local = [f \in Files |-> Absent]
    /\ dl_pc = "idle"
    /\ files = <<>>
    /\ index = 0
    /\ overwrite_flag = FALSE
    /\ events = <<>>
    /\ calls = 0

DownloaderSpec == DownloaderInit /\ [][DlNext]_vars

ServerSpec == ServerInit /\ [][SrvNext]_vars

(***************************************************************************)
(* Properties of the DataDownloader                                        *)
(***************************************************************************)
Handled == 1..Len(events)

\* the data directory holds what the last handling of each file left
LocalMatchesEvents ==
    \A i \in Handled :
        (\A j \in Handled : j > i => events[j].file # events[i].file)
            => local[events[i].file] = events[i].new

\* C1: in a call with overwrite_flag = false the prompt is issued at most once,
\* at the first handled file that exists locally; its answer becomes the cached
\* decision; after "no" every existing file (that one included) is skipped
\* unprompted and unchanged; after "yes" every existing file is requested from
\* the remote source unprompted and, when the request succeeds, overwritten with
\* the fetched bytes.
C1_PromptOncePerRun ==
    ~overwrite_flag =>
        /\ Cardinality({i \in Handled : events[i].prompted}) <= 1
        /\ \A i \in Handled : events[i].prompted =>
              /\ events[i].existed
              /\ \A j \in Handled : j < i => ~events[j].existed
              /\ events[i].after \in {"True", "False"}
              /\ force_overwrite = events[i].after
              /\ \A j \in Handled : (j >= i /\ events[j].existed) =>
                    /\ (j > i => ~events[j].prompted)
                    /\ events[j].after = events[i].after
                    /\ (events[i].after = "False" =>
                          ~events[j].fetched /\ ~events[j].written /\ events[j].new = events[j].old)
                    /\ (events[i].after = "True" =>
                          /\ events[j].fetched
                          /\ (events[j].outcome.ok =>
                                events[j].written /\ events[j].new = events[j].outcome.content))
        /\ LocalMatchesEvents

C1_Witness ==
    /\ ~overwrite_flag
    /\ \E i, j \in Handled :
          /\ i < j
          /\ events[i].prompted /\ events[i].after = "True"
          /\ events[j].existed /\ ~events[j].prompted
          /\ events[j].written /\ events[j].new # events[j].old

\* the words "File not found" somewhere in the message of a RequestFailedError
C2_NotFound(e) ==
    /\ e.class = "RequestFailedError"
    /\ \E k \in 1..(Len(e.msg) - 2) :
          e.msg[k] = "File" /\ e.msg[k + 1] = "not" /\ e.msg[k + 2] = "found"

\* C2: a fetch failing with a RequestFailedError whose message contains
\* "File not found" writes nothing and leaves the call running, the files being
\* handled in list order until the list is exhausted; any other error of the
\* fetch ends the call at once (it propagates), so that the failing file is the
\* last one handled and nothing is written for it.
C2_NotFoundContinuesOtherErrorsAbort ==
    /\ index = Len(events)
    /\ \A i \in Handled :
          /\ i <= Len(files) /\ events[i].file = files[i]
          /\ (events[i].fetched /\ ~events[i].outcome.ok /\ C2_NotFound(events[i].outcome.error)) =>
                /\ ~events[i].written /\ events[i].new = events[i].old
                /\ (i = Len(events) => dl_pc # "raised")
          /\ (events[i].fetched /\ ~events[i].outcome.ok /\ ~C2_NotFound(events[i].outcome.error)) =>
                /\ ~events[i].written /\ events[i].new = events[i].old
                /\ i = Len(events)
                /\ dl_pc = "raised"
    /\ (dl_pc = "raised") =>
          /\ Len(events) >= 1
          /\ events[Len(events)].fetched /\ ~events[Len(events)].outcome.ok
          /\ ~C2_NotFound(events[Len(events)].outcome.error)
    /\ (dl_pc = "returned") => Len(events) = Len(files)
    /\ LocalMatchesEvents

C2_Witness ==
    /\ dl_pc = "raised"
    /\ Len(events) < Len(files)
    /\ \E i \in Handled :
          /\ i < Len(events)
          /\ events[i].fetched /\ ~events[i].outcome.ok
          /\ C2_NotFound(events[i].outcome.error)
          /\ events[i + 1].fetched

\* C3: a file without a local copy is always requested from the remote source,
\* whatever overwrite_flag and the cached decision are, without a prompt and
\* without a change of the decision; when the request succeeds the file is
\* written with exactly the fetched bytes.
C3_AbsentFileAlwaysFetched ==
    /\ \A i \in Handled : ~events[i].existed =>
          /\ events[i].fetched
          /\ ~events[i].prompted
          /\ events[i].after = events[i].before
          /\ (events[i].outcome.ok =>
                events[i].written /\ events[i].new = events[i].outcome.content)
    /\ LocalMatchesEvents

C3_Witness ==
    \E i \in Handled :
        /\ ~events[i].existed /\ ~events[i].flag /\ events[i].before = "False"
        /\ events[i].written
        /\ i = Len(events) /\ local[events[i].file] = events[i].outcome.content

\* C4 as stated: every call of download_files starts with the decision unset.
C4_EveryCallStartsUnset ==
    (dl_pc = "loop" /\ index = 0) => force_overwrite = "None"

C10_State ==
    /\ \A i \in Handled :
          /\ (events[i].existed /\ events[i].fetched) =>
                (events[i].flag \/ events[i].after = "True")
          /\ events[i].written => events[i].fetched
          /\ ~events[i].fetched =>
                /\ events[i].existed
                /\ events[i].outcome.error = NoError /\ ~events[i].outcome.ok
                /\ ~events[i].written /\ events[i].new = events[i].old
          /\ events[i].flag => (~events[i].prompted /\ events[i].after = events[i].before)
          /\ events[i].flag = overwrite_flag
    /\ LocalMatchesEvents

\* C10: an existing file is requested from the remote source (and overwritten)
\* only if overwrite_flag is true or the cached decision is "allow" at that
\* point; a skipped file causes no request and keeps its content; a call with
\* overwrite_flag = true never prompts and never changes the decision; and once
\* the decision has left "unset" it never changes again on this DataDownloader.
C10_FetchOnlyIfAllowed ==
    /\ []C10_State
    /\ [][force_overwrite # "None" => force_overwrite' = force_overwrite]_vars

C10_Witness ==
    /\ calls = 2
    /\ ~overwrite_flag
    /\ \E i \in Handled :
          /\ events[i].existed /\ events[i].before = "False"
          /\ ~events[i].fetched /\ ~events[i].prompted

(***************************************************************************)
(* Properties of the local API server                                      *)
(***************************************************************************)
\* a projects/update request was served whose projectId named a project
UpdateServed ==
    /\ srv_pc = "handled"
    /\ g_input.route = "projects/update"
    /\ g_input.projectId # NoId
    /\ \E d \in Names : before[d].kind = "project" /\ before[d].id = g_input.projectId

\* the directory that held the project of the request when it arrived
UpdatedDir ==
    CHOOSE d \in Names : before[d].kind = "project" /\ before[d].id = g_input.projectId

\* the name of the request resolves to a directory that exists
NameTaken ==
    LET path == lstrip(g_input.name, "/")
    IN g_input.hasName /\ (path = Root \/ before[path].kind # "none")

\* the body {errors: [message], success: false}
ErrorBody(body, message) ==
    /\ body.has = {"errors", "success"}
    /\ body.errors = <<message>>
    /\ body.success = FALSE

\* C5 as stated: an update whose name resolves to an existing directory is
\* answered with the Conflict error and leaves the project's directory (path,
\* files, description, parameters) as it was, whatever else the request carries.
C5_ConflictLeavesProjectUntouched ==
    (UpdateServed /\ NameTaken) =>
        /\ ErrorBody(response.body, Conflict.msg)
        /\ dirs[UpdatedDir] = before[UpdatedDir]

\* C6: every response carries a boolean success field; after a normal return it
\* is the body the view returned with success = true added (no view's own
\* success value is replaced); after an exception it is exactly
\* {errors: [message], success: false}, the errors list holding one message.
C6_EveryResponseHasSuccess ==
    srv_pc = "handled" =>
        /\ "success" \in response.body.has
        /\ response.body.success \in BOOLEAN
        /\ ~result.raised =>
              /\ response.body.success = (IF "success" \in result.body.has
                                          THEN result.body.success ELSE TRUE)
              /\ response.body.has = result.body.has \cup {"success"}
              /\ response.body.errors = result.body.errors
              /\ response.body.projects = result.body.projects
              /\ response.body.account = result.body.account
        /\ result.raised =>
              /\ ErrorBody(response.body, result.exc.msg)
              /\ Len(response.body.errors) >= 1

C6_Witness ==
    /\ srv_pc = "handled"
    /\ g_input.route = "projects/update"
    /\ result.raised /\ result.exc = Conflict
    /\ response.body.success = FALSE
    /\ response.body.errors = <<Conflict.msg>>

\* the parameters a read of the project with that id returns now
ReadBack(id) ==
    {project.parameters :
        project \in UNION {r.body.projects :
            r \in {x \in _projects_read(dirs, [NoInput EXCEPT !.route = "projects/read",
                                                             !.projectId = id]) : ~x.raised}}}

\* the number of consecutive indices from 0 whose key the request carries
RECURSIVE Consecutive(_, _)
Consecutive(pairs, n) ==
    IF n < Len(pairs) /\ pairs[n + 1].hasKey THEN Consecutive(pairs, n + 1) ELSE n

\* the key-to-value map of the first n pairs, a repeated key keeping its last value
PairsMap(pairs, n) ==
    {[key |-> pairs[i].key, value |-> pairs[i].value] :
        i \in {j \in 1..n : \A k \in (j + 1)..n : pairs[k].key # pairs[j].key}}

\* C7: after an update of an existing project, a read of it returns no
\* parameters when the request carried the `parameters` field; exactly the map
\* of the pairs at the consecutive indices 0..n-1 (n >= 1, pairs after a gap
\* ignored, the previous parameters replaced) when it carried those pairs
\* instead; and the parameters it had before when it carried neither.
C7_ParametersReadBack ==
    UpdateServed =>
        LET n == Consecutive(g_input.pairs, 0)
            complete == \A i \in 1..n : g_input.pairs[i].hasValue
            expected ==
                IF g_input.parameters THEN {}
                ELSE IF n >= 1 THEN PairsMap(g_input.pairs, n)
                ELSE QCParameters(before[UpdatedDir].parameters)
        IN (g_input.parameters \/ complete) =>
              \A parameters \in ReadBack(g_input.projectId) : parameters = expected

C7_Witness ==
    /\ UpdateServed
    /\ ~g_input.parameters
    /\ g_input.pairs[1] = Pair("b", "2") /\ ~g_input.pairs[2].hasKey /\ g_input.pairs[3].hasKey
    /\ QCParameters(before[UpdatedDir].parameters) = {[key |-> "a", value |-> "1"]}
    /\ ReadBack(g_input.projectId) = {{[key |-> "b", value |-> "2"]}}

\* C8: the local ids of the project directories are pairwise distinct, and a
\* project that has an id keeps it through every request, a successful rename
\* included: a read of that id finds it, at its old path or at the new one,
\* unless the request deleted the project.
C8_IdsUniqueAndStable ==
    /\ \A n, m \in Names :
          (n # m /\ dirs[n].kind = "project" /\ dirs[m].kind = "project" /\ dirs[n].id # NoId)
              => dirs[n].id # dirs[m].id
    /\ srv_pc = "handled" =>
          \A n \in Names : (before[n].kind = "project" /\ before[n].id # NoId) =>
              LET id == before[n].id
                  mine == g_input.projectId = id /\ ~result.raised
                  now == IF mine /\ g_input.route = "projects/update" /\ g_input.hasName
                         THEN lstrip(g_input.name, "/") ELSE n
              IN IF mine /\ g_input.route = "projects/delete"
                 THEN \A m \in Names : ~(dirs[m].kind = "project" /\ dirs[m].id = id)
                 ELSE /\ dirs[now].kind = "project" /\ dirs[now].id = id
                      /\ \A r \in _projects_read(dirs, [NoInput EXCEPT !.route = "projects/read",
                                                                     !.projectId = id]) :
                            ~r.raised => {project.projectId : project \in r.body.projects} = {id}

C8_Witness ==
    /\ UpdateServed
    /\ ~result.raised
    /\ g_input.hasName
    /\ UpdatedDir # lstrip(g_input.name, "/")
    /\ dirs[lstrip(g_input.name, "/")].id = g_input.projectId
    /\ dirs[UpdatedDir].kind = "none"
    /\ \E r \in _projects_read(dirs, [NoInput EXCEPT !.route = "projects/read",
                                                    !.projectId = g_input.projectId]) :
          ~r.raised /\ {project.projectId : project \in r.body.projects} = {g_input.projectId}

\* C9 as stated: the metadata record of a project is built only when the
\* language key of its sidecar config holds the name of a declared member; in
\* every other state of that key (another string, no key) the read fails.
C9_ReadFailsUnlessLanguageIsMember ==
    (/\ srv_pc = "handled"
     /\ g_input.route = "projects/read"
     /\ g_input.projectId # NoId
     /\ \E d \in Names : before[d].kind = "project" /\ before[d].id = g_input.projectId)
        => (~result.raised <=> before[UpdatedDir].language \in DOMAIN Members)

====
